---- MODULE Spec2Model ----
(***************************************************************************)
(* A model of the MiniMax speech client pair: the blocking client          *)
(* MiniMaxSpeech (client.py), the non-blocking client AsyncMiniMaxSpeech   *)
(* (async_client.py), their transport session, the classification of a    *)
(* service response into a typed result or an error, and the bounded       *)
(* fan-out helper batch_text_to_speech.                                    *)
(*                                                                         *)
(* Python's None is modelled by a sentinel of the field's own type, so     *)
(* that every field keeps one type: NoneVal for an integer, NullMsg for a  *)
(* string, NoSession / NoDispatch / NoService / NoResult for a record.     *)
(***************************************************************************)
EXTENDS Integers, Sequences, FiniteSets, TLC

VARIABLES
    kind,            \* which client this instance is: "sync" or "async"
    config,          \* self.config: the resolved APIConfig
    session,         \* self.session
    nextId,          \* identity the next created session object gets
    pc,              \* "idle", or "blocked" inside a call that never returns
    last,            \* the last call made on the client, and what came of it
    arg,             \* the argument of that call (of the next one where Init draws it)
    dispatches,      \* how many HTTP dispatches that call made
    env,             \* os.environ: MINIMAX_API_KEY and MINIMAX_GROUP_ID
    requests,        \* batch_text_to_speech: the requests argument
    plan,            \* what the service answers to request i
    max_concurrent,  \* batch_text_to_speech: the max_concurrent argument
    sem,             \* the semaphore's value
    task,            \* each gathered task's position
    results,         \* gather's result slots
    batch,           \* "idle", "running", "returned" or "raised"
    returned         \* the list batch_text_to_speech returned

vars == <<kind, config, session, nextId, pc, last, arg, dispatches, env,
          requests, plan, max_concurrent, sem, task, results, batch, returned>>

clientVars == <<kind, config, session, nextId, pc, last, arg, dispatches, env>>
batchVars == <<requests, plan, max_concurrent, sem, task, results, batch, returned>>

(***************************************************************************)
(* Bounds of the model.                                                    *)
(***************************************************************************)
MaxSessions == 3
MaxRequests == 3
MaxConcurrent == 2
MaxVoiceIdLen == 9

(***************************************************************************)
(* Sentinels and program constants.                                        *)
(***************************************************************************)
NoneVal == -1
NullMsg == "None"
NoTimeout == 0
DEFAULT_TIMEOUT == 30
MAX_RETRIES == 3
HTTP_OK == 200

Clients == {"sync", "async"}

\* The timeout argument of the constructor: absent, zero, or a number of seconds.
TimeoutParams == {NoneVal, 0, 10}

\* APIConfig.__init__: timeout or self.DEFAULT_TIMEOUT (None and 0 are falsy).
ResolveTimeout(t) == IF t = NoneVal \/ t = 0 THEN DEFAULT_TIMEOUT ELSE t

\* The max_retries argument of the constructor, and its resolution:
\* max_retries or self.MAX_RETRIES.
RetryParams == {NoneVal, 0, 5}

ResolveRetries(r) == IF r = NoneVal \/ r = 0 THEN MAX_RETRIES ELSE r

\* os.environ: a variable is absent (os.getenv gives None), empty or set.
NoEnv == [MINIMAX_API_KEY |-> NullMsg, MINIMAX_GROUP_ID |-> NullMsg]

\* A mutant of ResolveCredential: the environment is never consulted.
ResolveCredentialParamOnly(param, envval) == param

\* api_key or self._get_api_key_from_env(): None and "" are falsy.
ResolveCredential(param, envval) ==
    IF param # NullMsg /\ param # "" THEN param ELSE envval

\* APIConfig.__init__: the attributes it sets.
APIConfig(api_key, group_id, timeout, max_retries, environ) ==
    [api_key |-> ResolveCredential(api_key, environ.MINIMAX_API_KEY),
     group_id |-> ResolveCredential(group_id, environ.MINIMAX_GROUP_ID),
     timeout |-> ResolveTimeout(timeout),
     max_retries |-> ResolveRetries(max_retries)]

\* The configuration a client holds before its constructor has run.
NoConfig == [api_key |-> NullMsg, group_id |-> NullMsg, timeout |-> NoTimeout, max_retries |-> 0]

\* not self.api_key / not self.group_id
Unresolved(v) == v = NullMsg \/ v = ""

(***************************************************************************)
(* The transport session.  closed: close() has been called on the object.  *)
(* timeout: the timeout the session object itself carries (aiohttp's       *)
(* ClientTimeout); a requests.Session carries none.                        *)
(***************************************************************************)
NoSession == [id |-> 0, closed |-> FALSE, timeout |-> NoTimeout]

HasSession(s) == s.id # 0

NewSession(id, t) == [id |-> id, closed |-> FALSE, timeout |-> t]

\* AsyncMiniMaxSpeech.__init__ leaves self.session None; MiniMaxSpeech.__init__
\* creates requests.Session().
InitialSession(k) == IF k = "sync" THEN NewSession(1, NoTimeout) ELSE NoSession

\* A mutant of NeedsNewSession: a session is created on every call.
NeedsNewSessionAlways(s) == TRUE

\* A mutant of NeedsNewSession: only a missing session is replaced, a closed
\* one is kept.
NeedsNewSessionOnlyNone(s) == ~HasSession(s)

\* _ensure_session's condition: self.session is None or self.session.closed.
NeedsNewSession(s) == ~HasSession(s) \/ s.closed

\* _ensure_session: the session after the call, id being the fresh identity.
EnsureSession(s, cfg, id) ==
    IF NeedsNewSession(s) THEN NewSession(id, cfg.timeout) ELSE s

\* A mutant of CloseGuard: close() calls self.session.close() unguarded.
CloseGuardNone(s) == TRUE

\* AsyncMiniMaxSpeech.close: if self.session and not self.session.closed.
CloseGuard(s) == HasSession(s) /\ ~s.closed

\* Whether close() goes on to call self.session.close(): behind its guard in
\* the non-blocking client, always in the blocking one.
CallsSessionClose(k, s) == IF k = "async" THEN CloseGuard(s) ELSE TRUE

\* The session object's own close(): the attribute keeps the object.
SessionClose(s) == [s EXCEPT !.closed = TRUE]

(***************************************************************************)
(* BaseResponse and the bodies a service response may carry.               *)
(***************************************************************************)
StatusCodes == {0, 1004, 9999}
StatusMsgs == {"success", "fail"}

NoEnvelope == [present |-> FALSE, status_code |-> 0, status_msg |-> NullMsg]

Envelope(c, m) == [present |-> TRUE, status_code |-> c, status_msg |-> m]

\* status_msg is Optional[str]: a null message is an envelope too.
Envelopes ==
    {Envelope(c, m) : c \in StatusCodes, m \in StatusMsgs} \cup {Envelope(0, NullMsg)}

\* A mutant of is_success: success read off the status code.
is_success_by_code(b) == b.status_code = 0

\* BaseResponse.is_success
is_success(b) == b.status_msg = "success"

\* The table of BaseResponse.error_type, and its fallback for other codes.
error_mapping(code) ==
    CASE code = 1000 -> "unknown error"
      [] code = 1001 -> "timeout"
      [] code = 1002 -> "rate limit"
      [] code = 1004 -> "authentication failed"
      [] code = 1039 -> "TPM rate limit"
      [] code = 1042 -> "illegal characters over 10 percent"
      [] code = 2013 -> "invalid input format"
      [] code = 2039 -> "voice id already exists"
      [] OTHER -> "unknown error"

\* BaseResponse.error_type: the mapped description, ": ", status_msg.
error_type(b) == <<error_mapping(b.status_code), ": ", b.status_msg>>

\* A body: text that is no JSON, or a JSON object.  complete: every required
\* field of the typed response other than base_resp is there and well typed.
NoBody == [fmt |-> "none", complete |-> FALSE, base_resp |-> NoEnvelope]
NotJson == [fmt |-> "text", complete |-> FALSE, base_resp |-> NoEnvelope]

JsonBody(c, e) == [fmt |-> "json", complete |-> c, base_resp |-> e]

JsonBodies ==
    {JsonBody(TRUE, e) : e \in Envelopes}
    \cup {JsonBody(TRUE, NoEnvelope), JsonBody(FALSE, NoEnvelope),
          JsonBody(FALSE, Envelope(1004, "fail")), JsonBody(FALSE, Envelope(0, "success"))}

Bodies == {NotJson} \cup JsonBodies

\* XResponse(**data) succeeds: pydantic finds every required field.
Decodes(body) == body.fmt = "json" /\ body.complete /\ body.base_resp.present

(***************************************************************************)
(* What the service does with one dispatched request.                      *)
(***************************************************************************)
HttpStatuses == {200, 500}

NoService == [kind |-> "none", status |-> 0, body |-> NoBody]
NoResponse == [kind |-> "timeout", status |-> 0, body |-> NoBody]
NetError == [kind |-> "neterr", status |-> 0, body |-> NoBody]

HttpResponses ==
    {[kind |-> "http", status |-> s, body |-> b] : s \in HttpStatuses, b \in Bodies}

ServiceOutcomes == {NoResponse, NetError} \cup HttpResponses

(***************************************************************************)
(* Results of a call: a returned value or the exception raised.            *)
(***************************************************************************)
NoData == [wrap |-> "empty", body |-> NoBody]

Result(k, code, data, msg) ==
    [kind |-> k, status_code |-> code, response_data |-> data, message |-> msg]

NoResult == Result("none", NoneVal, NoData, <<>>)
Returned(body) == Result("ok", NoneVal, [wrap |-> "json", body |-> body], <<>>)
Hang == Result("hang", NoneVal, NoData, <<>>)

\* MiniMaxAPIError(message, status_code=None, response_data=None)
MiniMaxAPIError(msg, code, data) == Result("MiniMaxAPIError", code, data, msg)
MiniMaxTimeoutError == Result("MiniMaxTimeoutError", NoneVal, NoData, <<"Request timed out">>)
ValueError(msg) == Result("ValueError", NoneVal, NoData, msg)
FileNotFoundError == Result("FileNotFoundError", NoneVal, NoData, <<"file does not exist">>)
\* pydantic's ValidationError, raised by XResponse(**data) and caught nowhere.
ValidationError == Result("ValidationError", NoneVal, NoData, <<"validation error">>)

(***************************************************************************)
(* Requests and their business validation.                                 *)
(***************************************************************************)
MAX_T2A_TEXT == 5000
MAX_CLONE_TEXT == 2000
MIN_VOICE_ID_LEN == 8

\* A text is known by its length and its length after str.strip().
Text(len, stripped) == [len |-> len, stripped |-> stripped]

\* A mutant of T2AValidModels: the list of _validate_voice_clone_request.
T2AValidModelsOfClone ==
    {"speech-02-hd", "speech-02-turbo", "speech-01-hd", "speech-01-turbo"}

\* The list valid_models of _validate_t2a_request.
T2AValidModels == {"speech-02-hd", "speech-01-turbo", "speech-01-hd"}

\* The list valid_models of _validate_voice_clone_request.
CloneValidModels == {"speech-02-hd", "speech-02-turbo", "speech-01-hd", "speech-01-turbo"}

T2ARequest(text, model) == [text |-> text, model |-> model]

\* The requests the client is called with: a passing one, the longest text
\* that passes, and one for each check of _validate_t2a_request.
T2ARequests ==
    { T2ARequest(Text(5, 5), "speech-02-hd"),
      T2ARequest(Text(3, 0), "speech-02-hd"),
      T2ARequest(Text(5000, 5000), "speech-01-turbo"),
      T2ARequest(Text(5001, 5001), "speech-01-hd"),
      T2ARequest(Text(5, 5), "speech-02-turbo") }

\* _validate_t2a_request: the ValueError raised, or NoResult when it passes.
validate_t2a_request(req) ==
    IF req.text.stripped = 0
    THEN ValueError(<<"Text cannot be empty">>)
    ELSE IF req.text.len > MAX_T2A_TEXT
    THEN ValueError(<<"Text too long, maximum 5000 characters allowed">>)
    ELSE IF req.model \notin T2AValidModels
    THEN ValueError(<<"Invalid model: ", req.model>>)
    ELSE NoResult

\* A voice_id is the sequence of its characters' classes: "L" str.isalpha,
\* "D" str.isdigit, "O" neither.
isalpha(c) == c = "L"

\* A mutant of isdigit: any character that is no letter counts as a digit.
isdigit_or_other(c) == c # "L"

isdigit(c) == c = "D"

Rep(c, n) == [i \in 1..n |-> c]

VoiceIds ==
    { Rep("L", 7) \o <<"D">>,            \* abcdefg1
      <<"D">> \o Rep("L", 7),            \* 1abcdefg
      Rep("L", 8),                       \* abcdefgh
      <<"L", "L", "D">>,                 \* ab1
      <<"O">> \o Rep("L", 6) \o <<"D">>, \* _abcdef1
      <<"L">> \o Rep("D", 7),            \* a1234567
      <<>> }

\* accuracy is held in tenths: 7 is 0.7.
VoiceCloneRequest(voice_id, text, accuracy, model) ==
    [voice_id |-> voice_id, text |-> text, accuracy |-> accuracy, model |-> model]

\* The requests the client is called with: passing ones and one for each
\* check of _validate_voice_clone_request.
VoiceCloneRequests ==
    { VoiceCloneRequest(Rep("L", 7) \o <<"D">>, NoneVal, 7, NullMsg),
      VoiceCloneRequest(<<"L">> \o Rep("D", 7), 2000, 10, "speech-02-turbo"),
      VoiceCloneRequest(<<"L", "L", "D">>, NoneVal, 7, NullMsg),
      VoiceCloneRequest(<<"D">> \o Rep("L", 7), NoneVal, 7, NullMsg),
      VoiceCloneRequest(Rep("L", 8), NoneVal, 7, NullMsg),
      VoiceCloneRequest(Rep("L", 7) \o <<"D">>, 2001, 7, NullMsg),
      VoiceCloneRequest(Rep("L", 7) \o <<"D">>, NoneVal, 11, NullMsg),
      VoiceCloneRequest(Rep("L", 7) \o <<"D">>, NoneVal, 7, "bogus"),
      \* requests that break several rules at once
      VoiceCloneRequest(<<"D", "L", "D">>, 2001, 11, "bogus"),
      VoiceCloneRequest(Rep("D", 8), 2001, 11, "bogus"),
      VoiceCloneRequest(Rep("L", 8), 2001, 11, "bogus"),
      VoiceCloneRequest(Rep("L", 7) \o <<"D">>, 2001, 11, "bogus"),
      VoiceCloneRequest(Rep("L", 7) \o <<"D">>, 2000, 11, "bogus") }

\* A mutant of validate_voice_clone_request: accuracy is looked at before the
\* text.
validate_accuracy_before_text(req) ==
    IF Len(req.voice_id) < MIN_VOICE_ID_LEN
    THEN ValueError(<<"voice_id must be at least 8 characters long">>)
    ELSE IF ~isalpha(req.voice_id[1])
    THEN ValueError(<<"voice_id must start with a letter">>)
    ELSE IF ~((\E i \in 1..Len(req.voice_id) : isalpha(req.voice_id[i]))
              /\ (\E i \in 1..Len(req.voice_id) : isdigit(req.voice_id[i])))
    THEN ValueError(<<"voice_id must contain both letters and numbers">>)
    ELSE IF req.accuracy # NoneVal /\ ~(0 <= req.accuracy /\ req.accuracy <= 10)
    THEN ValueError(<<"accuracy must be between 0 and 1">>)
    ELSE IF req.text # NoneVal /\ req.text # 0 /\ req.text > MAX_CLONE_TEXT
    THEN ValueError(<<"text too long, maximum 2000 characters allowed">>)
    ELSE IF req.model # NullMsg /\ req.model # "" /\ req.model \notin CloneValidModels
    THEN ValueError(<<"Invalid model: ", req.model>>)
    ELSE NoResult

\* _validate_voice_clone_request: the ValueError raised, or NoResult.
validate_voice_clone_request(req) ==
    IF Len(req.voice_id) < MIN_VOICE_ID_LEN
    THEN ValueError(<<"voice_id must be at least 8 characters long">>)
    ELSE IF ~isalpha(req.voice_id[1])
    THEN ValueError(<<"voice_id must start with a letter">>)
    ELSE IF ~((\E i \in 1..Len(req.voice_id) : isalpha(req.voice_id[i]))
              /\ (\E i \in 1..Len(req.voice_id) : isdigit(req.voice_id[i])))
    THEN ValueError(<<"voice_id must contain both letters and numbers">>)
    ELSE IF req.text # NoneVal /\ req.text # 0 /\ req.text > MAX_CLONE_TEXT
    THEN ValueError(<<"text too long, maximum 2000 characters allowed">>)
    ELSE IF req.accuracy # NoneVal /\ ~(0 <= req.accuracy /\ req.accuracy <= 10)
    THEN ValueError(<<"accuracy must be between 0 and 1">>)
    ELSE IF req.model # NullMsg /\ req.model # "" /\ req.model \notin CloneValidModels
    THEN ValueError(<<"Invalid model: ", req.model>>)
    ELSE NoResult

(***************************************************************************)
(* One HTTP dispatch and the classification of what comes back.            *)
(***************************************************************************)
Operations == {"t2a", "get_voice", "file_upload", "voice_clone", "voice_delete"}

\* session.post(..., timeout=self.config.timeout): the blocking client hands
\* a timeout to the dispatch of _submit_t2a_request only.
PassesTimeout(op) == op = "t2a"

\* The timeout a dispatch is made with: the session's ClientTimeout in the
\* non-blocking client, the timeout argument of post in the blocking one.
EffectiveTimeout(k, op, s, cfg) ==
    IF k = "async" THEN s.timeout
    ELSE IF PassesTimeout(op) THEN cfg.timeout ELSE NoTimeout

\* if response.status_code != 200: every operation but the blocking
\* voice_delete, which decodes the body whatever the status.
ChecksHttpStatus(k, op) == ~(k = "sync" /\ op = "voice_delete")

\* How each operation carries its payload.
Wire(k, op) ==
    CASE op = "get_voice" -> IF k = "sync" THEN "form" ELSE "query"
      [] op = "file_upload" -> "multipart"
      [] OTHER -> "json"

\* The GroupId query parameter of the operation's URL, read from self.config
\* when the call is made; voice_list_url carries none.
UrlGroupId(op, cfg) == IF op = "get_voice" THEN NullMsg ELSE cfg.group_id

NoDispatch ==
    [sent |-> FALSE, op |-> "none", sid |-> 0, timeout |-> NoTimeout, wire |-> "none",
     group_id |-> NullMsg]

Dispatch(k, op, s, cfg) ==
    [sent |-> TRUE, op |-> op, sid |-> s.id,
     timeout |-> EffectiveTimeout(k, op, s, cfg), wire |-> Wire(k, op),
     group_id |-> UrlGroupId(op, cfg)]

\* A mutant of Attempts: a failed dispatch is made again max_retries times.
AttemptsWithRetries(max_retries, r) ==
    IF r.kind \in {"MiniMaxAPIError", "MiniMaxTimeoutError"} THEN 1 + max_retries ELSE 1

\* The dispatches of one _submit_*_request whose result is r: its try block
\* holds one session.post and no loop, and max_retries is read nowhere.
Attempts(max_retries, r) == 1

\* The try block of an operation: the result of a dispatch made with the
\* given timeout, when the service does svc.
Submit(k, op, svc, timeout) ==
    CASE svc.kind = "timeout" ->
            \* without a timeout the transport raises nothing and waits on
            IF timeout # NoTimeout THEN MiniMaxTimeoutError ELSE Hang
      [] svc.kind = "neterr" ->
            MiniMaxAPIError(<<"Request failed: ">>, NoneVal, NoData)
      [] OTHER ->
            IF ChecksHttpStatus(k, op) /\ svc.status # HTTP_OK
            THEN MiniMaxAPIError(<<"HTTP ", ToString(svc.status), ": ">>, svc.status,
                                 [wrap |-> "text", body |-> svc.body])
            ELSE IF svc.body.fmt # "json"
            THEN MiniMaxAPIError(<<"Invalid JSON response: ">>, NoneVal, NoData)
            ELSE IF ~Decodes(svc.body)
            THEN ValidationError
            ELSE IF ~is_success(svc.body.base_resp)
            THEN MiniMaxAPIError(<<"API Error: ">> \o error_type(svc.body.base_resp),
                                 svc.body.base_resp.status_code,
                                 [wrap |-> "json", body |-> svc.body])
            ELSE Returned(svc.body)

(***************************************************************************)
(* The client: one instance, blocking or non-blocking.                     *)
(***************************************************************************)
\* A call as an observer records it.  before: self.session when the call was
\* made; afterClose: the call before this one was close().
Call(op, before, afterClose, svc, result, dispatch) ==
    [op |-> op, before |-> before, afterClose |-> afterClose, svc |-> svc,
     result |-> result, dispatch |-> dispatch]

NoCall == Call("init", NoSession, FALSE, NoService, NoResult, NoDispatch)

Ok == Result("ok", NoneVal, NoData, <<>>)
\* None.close(): 'NoneType' object has no attribute 'close'.
AttributeError == Result("AttributeError", NoneVal, NoData, <<>>)

\* The arguments of a call.
NoArg == [type |-> "none"]
VoiceTypeArg(voice_type) == [type |-> "voice_type", voice_type |-> voice_type]
PathArg(exists) == [type |-> "path", exists |-> exists]
RequestArg(type, req) == [type |-> type, request |-> req]
VoiceIdArg == [type |-> "voice_id"]

\* A mutant of RaisedBeforeSubmit: the local check's exception is dropped.
RaisedBeforeSubmitNever(rejected) == FALSE

\* self._validate_*_request(request) comes before self._submit_*_request:
\* what it raises ends the call.
RaisedBeforeSubmit(rejected) == rejected # NoResult

\* A mutant of PathRejected: the path is not looked at.
PathRejectedNever(exists) == NoResult

\* file_upload: if not file_path.exists(): raise FileNotFoundError
PathRejected(exists) == IF exists THEN NoResult ELSE FileNotFoundError

\* A call rejected locally never reaches the service.
Outcomes(rejected) == IF rejected # NoResult THEN {NoService} ELSE ServiceOutcomes

\* await self._ensure_session() opens every operation of the non-blocking
\* client; the blocking client has no such step.
Ensured(k, s, cfg, id) == IF k = "async" THEN EnsureSession(s, cfg, id) ELSE s

\* The part common to the operations: the session is ensured, then either the
\* local check `rejected` ends the call, or one dispatch is made.
Operation(op, a, rejected, svc) ==
    /\ LET s1 == Ensured(kind, session, config, nextId)
           d == Dispatch(kind, op, s1, config)
           made == ~RaisedBeforeSubmit(rejected)
           r == IF made THEN Submit(kind, op, svc, d.timeout) ELSE rejected
       IN  /\ s1 # session => nextId <= MaxSessions
           /\ session' = s1
           /\ nextId' = IF s1 # session THEN nextId + 1 ELSE nextId
           /\ last' = IF made
                      THEN Call(op, session, last.op = "close", svc, r, d)
                      ELSE Call(op, session, last.op = "close", NoService, r, NoDispatch)
           /\ dispatches' = IF made THEN Attempts(config.max_retries, r) ELSE 0
           /\ pc' = IF r = Hang THEN "blocked" ELSE "idle"
    /\ arg' = a
    /\ UNCHANGED <<kind, config, env>>
    /\ UNCHANGED batchVars

get_voice ==
    /\ pc = "idle"
    /\ \E svc \in ServiceOutcomes :
        Operation("get_voice", VoiceTypeArg("all"), NoResult, svc)

\* file_upload: the path is checked after the session is ensured.
file_upload ==
    /\ pc = "idle"
    /\ \E exists \in BOOLEAN :
        LET rejected == PathRejected(exists)
        IN  \E svc \in Outcomes(rejected) :
                Operation("file_upload", PathArg(exists), rejected, svc)

voice_clone ==
    /\ pc = "idle"
    /\ \E req \in VoiceCloneRequests :
        LET rejected == validate_voice_clone_request(req)
        IN  \E svc \in Outcomes(rejected) :
                Operation("voice_clone", RequestArg("clone", req), rejected, svc)

text_to_speech ==
    /\ pc = "idle"
    /\ \E req \in T2ARequests :
        LET rejected == validate_t2a_request(req)
        IN  \E svc \in Outcomes(rejected) :
                Operation("t2a", RequestArg("t2a", req), rejected, svc)

\* voice_delete exists in the blocking client only.
voice_delete ==
    /\ pc = "idle"
    /\ kind = "sync"
    /\ \E svc \in ServiceOutcomes : Operation("voice_delete", VoiceIdArg, NoResult, svc)

\* close(), which is also all that __exit__ and __aexit__ do.
close ==
    /\ pc = "idle"
    /\ session' = IF CallsSessionClose(kind, session) /\ HasSession(session)
                  THEN SessionClose(session) ELSE session
    /\ last' = Call("close", session, last.op = "close", NoService,
                    IF CallsSessionClose(kind, session) /\ ~HasSession(session)
                    THEN AttributeError ELSE Ok,
                    NoDispatch)
    /\ arg' = NoArg
    /\ dispatches' = 0
    /\ UNCHANGED <<kind, config, nextId, pc, env>>
    /\ UNCHANGED batchVars

\* __aenter__ ensures the session; __enter__ only returns self.
enter ==
    /\ pc = "idle"
    /\ LET s1 == Ensured(kind, session, config, nextId)
       IN  /\ s1 # session => nextId <= MaxSessions
           /\ session' = s1
           /\ nextId' = IF s1 # session THEN nextId + 1 ELSE nextId
    /\ last' = Call("enter", session, last.op = "close", NoService, Ok, NoDispatch)
    /\ arg' = NoArg
    /\ dispatches' = 0
    /\ UNCHANGED <<kind, config, pc, env>>
    /\ UNCHANGED batchVars

NoBatch ==
    /\ requests = <<>>
    /\ plan = <<>>
    /\ max_concurrent = 0
    /\ sem = 0
    /\ task = <<>>
    /\ results = <<>>
    /\ batch = "idle"
    /\ returned = <<>>

\* A client constructed with both credentials given, as
\* MiniMaxSpeech(api_key="test_key", group_id="test_group").
Init ==
    /\ kind \in Clients
    /\ env = NoEnv
    /\ config \in {APIConfig("test_key", "test_group", t, r, env) :
                        t \in TimeoutParams, r \in RetryParams}
    /\ session = InitialSession(kind)
    /\ nextId = IF kind = "sync" THEN 2 ELSE 1
    /\ pc = "idle"
    /\ last = NoCall
    /\ arg = NoArg
    /\ dispatches = 0
    /\ NoBatch

Next ==
    \/ get_voice
    \/ file_upload
    \/ voice_clone
    \/ text_to_speech
    \/ voice_delete
    \/ close
    \/ enter

Spec == Init /\ [][Next]_vars

(***************************************************************************)
(* The session's life (C4, C5).                                            *)
(***************************************************************************)
IsOperation(op) == op \in Operations
WasOpen(s) == HasSession(s) /\ ~s.closed

\* An operation that found an open session dispatched on that session.
SessionReused ==
    (last.dispatch.sent /\ WasOpen(last.before)) => last.dispatch.sid = last.before.id

\* Every dispatch is made on the session the client holds after the call.
DispatchOnCurrent ==
    last.dispatch.sent => (last.dispatch.sid = session.id /\ HasSession(session))

\* C4 as the specification states it: neither client holds a transport
\* session after construction, the first operation opens it, and every later
\* operation uses that same session until close is called.
C4_Original ==
    /\ last.op = "init" => ~HasSession(session)
    /\ (IsOperation(last.op) /\ ~HasSession(last.before)) => HasSession(session)
    /\ SessionReused
    /\ DispatchOnCurrent

\* C4, amended: AsyncMiniMaxSpeech holds no session after construction; its
\* first operation (or __aenter__) opens one, and every later operation uses
\* that same session for as long as it is open.  MiniMaxSpeech creates its
\* session in the constructor and every operation uses that one session.
C4_SessionLifecycle ==
    /\ (kind = "async" /\ last.op = "init") => ~HasSession(session)
    /\ (kind = "async" /\ (IsOperation(last.op) \/ last.op = "enter")) => WasOpen(session)
    /\ kind = "sync" => (HasSession(session) /\ session.id = InitialSession("sync").id)
    /\ SessionReused
    /\ DispatchOnCurrent

\* The non-blocking client's second dispatch in a row on one open session.
C4_Witness ==
    /\ kind = "async"
    /\ last.dispatch.sent
    /\ WasOpen(last.before)
    /\ last.dispatch.sid = last.before.id

\* C5: close() is idempotent on both clients: it raises nothing in any state,
\* changes nothing when no session is open, and a second close() in a row
\* leaves the session as the first left it.
C5_CloseIdempotent ==
    last.op = "close" =>
        /\ last.result = Ok
        /\ ~WasOpen(last.before) => session = last.before
        /\ last.afterClose => session = last.before
        /\ session.id = last.before.id
        /\ HasSession(session) => session.closed

\* Two close() calls in a row.
C5_Witness == last.op = "close" /\ last.afterClose

(***************************************************************************)
(* The classification of a response (C6 .. C10).                           *)
(***************************************************************************)
Dispatched == IsOperation(last.op) /\ last.dispatch.sent
Got200 == Dispatched /\ last.svc.kind = "http" /\ last.svc.status = HTTP_OK

C7_HttpStatusRaised ==
    (Dispatched /\ last.svc.kind = "http" /\ last.svc.status # HTTP_OK) =>
        /\ last.result.kind = "MiniMaxAPIError"
        /\ last.result.status_code = last.svc.status
        /\ last.result.response_data = [wrap |-> "text", body |-> last.svc.body]

Contains(msg, part) == \E i \in 1..Len(msg) : msg[i] = part

\* C8: an HTTP 200 response whose base envelope is not successful raises an
\* API error with the envelope's status_code, the decoded payload, and a
\* message holding the description mapped from that code.
C8_EnvelopeErrorRaised ==
    (Got200 /\ last.svc.body.fmt = "json" /\ last.svc.body.base_resp.present
        /\ last.svc.body.base_resp.status_msg # "success") =>
        /\ last.result.kind = "MiniMaxAPIError"
        /\ last.result.status_code = last.svc.body.base_resp.status_code
        /\ last.result.response_data = [wrap |-> "json", body |-> last.svc.body]
        /\ Contains(last.result.message, error_mapping(last.svc.body.base_resp.status_code))

\* C9: when no response arrives within the configured timeout the operation
\* raises MiniMaxTimeoutError, and no other error.
C9_TimeoutRaised ==
    (Dispatched /\ last.svc.kind = "timeout") => last.result = MiniMaxTimeoutError

\* C10: every dispatch is made with the timeout the client was constructed
\* with.
C10_DispatchHasTimeout ==
    Dispatched => last.dispatch.timeout = config.timeout

(***************************************************************************)
(* Local rejection, dispatch counts and error payloads (C12 .. C20).       *)
(***************************************************************************)
\* What business validation says of the request a call was given.
BusinessRejection(a) ==
    IF a.type = "t2a" THEN validate_t2a_request(a.request)
    ELSE validate_voice_clone_request(a.request)

\* C12: when text_to_speech or voice_clone rejects its request by business
\* validation, the ValueError reaches the caller and the call has made no
\* HTTP dispatch, in the blocking and in the non-blocking client.
C12_RejectedWithoutDispatch ==
    (last.op \in {"t2a", "voice_clone"} /\ BusinessRejection(arg) # NoResult) =>
        /\ last.result = BusinessRejection(arg)
        /\ last.result.kind = "ValueError"
        /\ dispatches = 0
        /\ ~last.dispatch.sent
        /\ last.svc = NoService

\* The non-blocking text_to_speech refused a request: its session is open,
\* nothing was sent.
C12_Witness ==
    /\ kind = "async" /\ last.op = "t2a"
    /\ BusinessRejection(arg) # NoResult
    /\ last.result.kind = "ValueError"
    /\ WasOpen(session)
    /\ dispatches = 0

\* C13: file_upload on a path that does not exist raises FileNotFoundError
\* and makes no HTTP dispatch, in both clients.
C13_MissingFileNoDispatch ==
    (last.op = "file_upload" /\ ~arg.exists) =>
        /\ last.result = FileNotFoundError
        /\ dispatches = 0
        /\ ~last.dispatch.sent
        /\ last.svc = NoService

\* The blocking file_upload refused a missing path.
C13_Witness ==
    /\ kind = "sync" /\ last.op = "file_upload" /\ ~arg.exists
    /\ last.result = FileNotFoundError
    /\ dispatches = 0

\* C15: a call of a single-item operation makes at most one HTTP dispatch,
\* whatever max_retries is and whatever comes back: one when it dispatches,
\* none when it is refused locally.
C15_AtMostOneDispatch ==
    IsOperation(last.op) =>
        /\ dispatches <= 1
        /\ dispatches = 1 <=> last.dispatch.sent
        /\ last.svc # NoService => dispatches = 1

\* A failed dispatch under max_retries = 5 that was made once.
C15_Witness ==
    /\ IsOperation(last.op)
    /\ config.max_retries = 5
    /\ last.svc.kind \in {"timeout", "neterr"}
    /\ last.result.kind \in {"MiniMaxAPIError", "MiniMaxTimeoutError"}
    /\ dispatches = 1

\* C18: every API error an operation raises carries a numeric status code,
\* the HTTP status or the business status code.
C18_ApiErrorHasStatus ==
    (IsOperation(last.op) /\ last.result.kind = "MiniMaxAPIError") =>
        last.result.status_code # NoneVal

Other(k) == IF k = "sync" THEN "async" ELSE "sync"

\* What the client of kind k makes of the same call: AsyncMiniMaxSpeech has
\* no voice_delete, every other operation ensures its session and submits.
ResultIn(k, op, rejected, svc) ==
    IF k = "async" /\ op = "voice_delete" THEN AttributeError
    ELSE IF rejected # NoResult THEN rejected
    ELSE Submit(k, op, svc,
                EffectiveTimeout(k, op, NewSession(1, config.timeout), config))

\* C20: the two clients are equivalent: the same call with the same service
\* outcome gives the same wire request, and the same typed result or the
\* same kind of error with the same status code.
C20_ClientsEquivalent ==
    IsOperation(last.op) =>
        LET other == ResultIn(Other(kind), last.op,
                              IF last.dispatch.sent THEN NoResult ELSE last.result,
                              last.svc)
        IN  /\ last.result.kind = other.kind
            /\ last.result.status_code = other.status_code
            /\ last.result.response_data = other.response_data
            /\ last.dispatch.sent => last.dispatch.wire = Wire(Other(kind), last.op)

(***************************************************************************)
(* batch_text_to_speech: one task per request, gated by a semaphore and    *)
(* gathered.  A task runs without interruption from one await that         *)
(* suspends to the next: taking a free permit, _ensure_session and         *)
(* _validate_t2a_request are one step; the next step is the response (or   *)
(* the timeout) of its session.post.                                       *)
(***************************************************************************)
BatchRequests ==
    { T2ARequest(Text(5, 5), "speech-02-hd"), T2ARequest(Text(3, 0), "speech-02-hd") }

BatchOutcomes ==
    { [kind |-> "http", status |-> HTTP_OK, body |-> JsonBody(TRUE, Envelope(0, "success"))],
      [kind |-> "http", status |-> HTTP_OK, body |-> JsonBody(TRUE, Envelope(1004, "fail"))],
      NoResponse }

Items == DOMAIN task

InFlight == Cardinality({i \in Items : task[i] = "inflight"})

\* A mutant of CanAcquire: the permit is taken without looking at the value.
CanAcquireAlways(value) == TRUE

\* A mutant of CanAcquire: the last permit is never handed out.
CanAcquireAboveOne(value) == value > 1

\* async with semaphore: acquire() goes through only while the value is > 0.
CanAcquire(value) == value > 0

\* A mutant of GatherStore: results are kept in the order of completion.
GatherStoreInOrderOfCompletion(res, i, r) ==
    LET free == {j \in DOMAIN res : res[j] = NoResult}
        first == CHOOSE j \in free : \A k \in free : j <= k
    IN  [res EXCEPT ![first] = r]

\* asyncio.gather: the outcome of the i-th awaitable is the i-th result.
GatherStore(res, i, r) == [res EXCEPT ![i] = r]

\* A mutant of ReturnExceptions: gather's default.
ReturnExceptionsOff == FALSE

\* asyncio.gather(*tasks, return_exceptions=True)
ReturnExceptions == TRUE

IsException(r) == r.kind \notin {"ok", "none"}

\* Without return_exceptions the first exception is raised to the awaiter of
\* gather, that is out of batch_text_to_speech.
Gathered(b, r) == IF IsException(r) /\ ~ReturnExceptions THEN "raised" ELSE b

\* text_to_speech of the non-blocking client on request req when the service
\* does svc, as one value.
TextToSpeechResult(req, svc, cfg) ==
    IF validate_t2a_request(req) # NoResult THEN validate_t2a_request(req)
    ELSE Submit("async", "t2a", svc, cfg.timeout)

\* Task i enters the semaphore and runs text_to_speech up to its dispatch; a
\* request that fails validation leaves the semaphore in the same step.
StartItem(i) ==
    /\ task[i] = "pending"
    /\ CanAcquire(sem)
    /\ LET s1 == EnsureSession(session, config, nextId)
           rejected == validate_t2a_request(requests[i])
       IN  /\ session' = s1
           /\ nextId' = IF s1 # session THEN nextId + 1 ELSE nextId
           /\ IF rejected # NoResult
              THEN /\ task' = [task EXCEPT ![i] = "done"]
                   /\ results' = GatherStore(results, i, rejected)
                   /\ batch' = Gathered(batch, rejected)
                   /\ sem' = sem
              ELSE /\ task' = [task EXCEPT ![i] = "inflight"]
                   /\ sem' = sem - 1
                   /\ UNCHANGED <<results, batch>>
    /\ UNCHANGED <<kind, config, pc, last, arg, dispatches, env>>
    /\ UNCHANGED <<requests, plan, max_concurrent, returned>>

\* The dispatch of task i ends: the task leaves the semaphore with its
\* response or its exception.
CompleteItem(i) ==
    /\ task[i] = "inflight"
    /\ LET r == Submit("async", "t2a", plan[i], session.timeout)
       IN  /\ results' = GatherStore(results, i, r)
           /\ batch' = Gathered(batch, r)
    /\ task' = [task EXCEPT ![i] = "done"]
    /\ sem' = sem + 1
    /\ UNCHANGED <<clientVars, requests, plan, max_concurrent, returned>>

\* gather returns once every task is done.
BatchReturn ==
    /\ batch = "running"
    /\ \A i \in Items : task[i] = "done"
    /\ batch' = "returned"
    /\ returned' = results
    /\ UNCHANGED <<clientVars, requests, plan, max_concurrent, sem, task, results>>

BatchInit ==
    /\ kind = "async"
    /\ env = NoEnv
    /\ config = APIConfig("test_key", "test_group", NoneVal, NoneVal, env)
    /\ session = NoSession
    /\ nextId = 1
    /\ pc = "idle"
    /\ last = NoCall
    /\ arg = NoArg
    /\ dispatches = 0
    /\ \E n \in 0..MaxRequests :
        /\ requests \in [1..n -> BatchRequests]
        /\ plan \in [1..n -> BatchOutcomes]
        /\ task = [i \in 1..n |-> "pending"]
        /\ results = [i \in 1..n |-> NoResult]
    /\ max_concurrent \in 0..MaxConcurrent
    /\ sem = max_concurrent
    /\ batch = "running"
    /\ returned = <<>>

BatchNext ==
    \/ \E i \in Items : StartItem(i)
    \/ \E i \in Items : CompleteItem(i)
    \/ BatchReturn

SpecBatch == BatchInit /\ [][BatchNext]_vars

\* C1: with max_concurrent >= 1, the text_to_speech operations started and
\* not yet finished never number more than max_concurrent.
C1_BoundedInFlight ==
    (batch # "idle" /\ max_concurrent >= 1) =>
        (InFlight <= max_concurrent /\ sem = max_concurrent - InFlight)

\* Every permit is taken while another request still waits for one.
C1_Witness ==
    /\ max_concurrent >= 1
    /\ InFlight = max_concurrent
    /\ \E i \in Items : task[i] = "pending"

\* C2: the returned list has one entry for each request, and entry i is the
\* response or the exception of request i, whatever the order of completion.
C2_ResultsInInputOrder ==
    batch = "returned" =>
        /\ Len(returned) = Len(requests)
        /\ \A i \in 1..Len(requests) :
                returned[i] = TextToSpeechResult(requests[i], plan[i], config)

\* A returned list of the full length whose entries differ.
C2_Witness ==
    /\ batch = "returned"
    /\ Len(returned) = MaxRequests
    /\ returned[1].kind = "MiniMaxTimeoutError"
    /\ returned[2].kind = "ok"
    /\ returned[MaxRequests].kind = "ValueError"

\* C3: a failed item does not make the batch call raise, does not keep its
\* permit from the others, and every other item still gets its own entry.
C3_FailureIsolated ==
    /\ batch \in {"running", "returned"}
    /\ batch = "running" => sem = max_concurrent - InFlight
    /\ \A i \in Items : IsException(results[i]) => task[i] = "done"
    /\ batch = "returned" =>
            \A i \in Items : task[i] = "done" /\ results[i] # NoResult /\ returned[i] = results[i]

\* A returned batch holding a validation error, an API error and a response.
C3_Witness ==
    /\ batch = "returned"
    /\ \E i, j, k \in Items :
        /\ returned[i].kind = "ValueError"
        /\ returned[j].kind = "MiniMaxAPIError"
        /\ returned[k].kind = "ok"

(***************************************************************************)
(* A caller that builds one request and hands it to a fresh client, as the *)
(* examples and tests do: VoiceCloneRequest(...) then voice_clone(request),*)
(* T2ARequest(...) then text_to_speech(request).  The fields the caller    *)
(* gives are drawn in the initial state.                                   *)
(***************************************************************************)
\* common_models.ValidModels: Literal["speech-02-hd", "speech-01-turbo",
\* "speech-01-hd", "speech-01-turbo"], three distinct values.
ValidModels == {"speech-02-hd", "speech-01-turbo", "speech-01-hd"}

\* The model values a caller may write: the four of the voice-clone list,
\* another name, the empty string, and None.
ModelNames == CloneValidModels \cup {"bogus", "", NullMsg}

\* VoiceCloneRequest(**fields): model is Optional[ValidModels]; voice_id, text
\* and accuracy carry no constraint.
ConstructVoiceCloneRequest(req) ==
    IF req.model # NullMsg /\ req.model \notin ValidModels THEN ValidationError ELSE NoResult

\* T2ARequest(**fields): model is ValidModels, text has max_length=5000.
ConstructT2ARequest(req) ==
    IF req.model \notin ValidModels \/ req.text.len > MAX_T2A_TEXT
    THEN ValidationError ELSE NoResult

\* VoiceSetting's constrained fields; speed and vol are held in tenths.
\* speed: confloat(ge=0.5, le=2)
SpeedOk(v) == 5 <= v /\ v <= 20

\* A mutant of VolOk: the lower end is taken as ge=0.
VolOkClosed(v) == 0 <= v /\ v <= 100

\* vol: confloat(gt=0, le=10)
VolOk(v) == 0 < v /\ v <= 100

\* pitch: conint(ge=-12, le=12)
PitchOk(v) == -12 <= v /\ v <= 12

\* A VoiceSetting and the synthesis request it is put into.
VoiceSettingArg(speed, vol, pitch) ==
    [type |-> "voice_setting", speed |-> speed, vol |-> vol, pitch |-> pitch,
     request |-> T2ARequest(Text(5, 5), "speech-02-hd")]

\* VoiceSetting(speed=..., vol=..., pitch=...)
ConstructVoiceSetting(a) ==
    IF SpeedOk(a.speed) /\ VolOk(a.vol) /\ PitchOk(a.pitch) THEN NoResult ELSE ValidationError

\* The speeds, volumes and pitches a caller writes: the ends of each range,
\* the values next to them, and the defaults.
Speeds == {4, 5, 10, 20, 21, 30}
Volumes == {-10, 0, 1, 10, 100, 101, 110}
Pitches == {-13, -12, 0, 12, 13, 15}

CharClasses == {"L", "D", "O"}

\* Every voice_id of up to MaxVoiceIdLen characters.
AllVoiceIds == UNION {[1..n -> CharClasses] : n \in 0..MaxVoiceIdLen}

\* What the caller gives: every voice_id with the other fields left at their
\* defaults, then a few voice_ids with every text, accuracy and model, then
\* the synthesis requests, then the voice settings.
CallerInputs ==
    {RequestArg("clone", VoiceCloneRequest(v, NoneVal, 7, NullMsg)) : v \in AllVoiceIds}
    \cup {RequestArg("clone", VoiceCloneRequest(v, t, a, m)) :
            v \in VoiceIds, t \in {NoneVal, 2000, 2001}, a \in {NoneVal, 7, 11},
            m \in ModelNames}
    \cup {RequestArg("t2a", T2ARequest(t, m)) :
            t \in {Text(5, 5), Text(3, 0), Text(5000, 5000), Text(5001, 5001)},
            m \in ModelNames}
    \cup {VoiceSettingArg(sp, v, p) : sp \in Speeds, v \in Volumes, p \in Pitches}

\* What the service answers to the caller's one request.
CallerOutcomes ==
    { [kind |-> "http", status |-> HTTP_OK, body |-> JsonBody(TRUE, Envelope(0, "success"))],
      NetError }

\* The constructor of the request raised: no call is made on the client.
ConstructionFailed(r) ==
    /\ last' = Call("construct", session, FALSE, NoService, r, NoDispatch)
    /\ dispatches' = 0
    /\ UNCHANGED <<kind, config, session, nextId, pc, arg, env>>
    /\ UNCHANGED batchVars

new_voice_clone ==
    /\ pc = "idle" /\ last.op = "init" /\ arg.type = "clone"
    /\ LET built == ConstructVoiceCloneRequest(arg.request)
           rejected == validate_voice_clone_request(arg.request)
       IN  IF built # NoResult THEN ConstructionFailed(built)
           ELSE \E svc \in IF rejected # NoResult THEN {NoService} ELSE CallerOutcomes :
                    Operation("voice_clone", arg, rejected, svc)

new_text_to_speech ==
    /\ pc = "idle" /\ last.op = "init" /\ arg.type = "t2a"
    /\ LET built == ConstructT2ARequest(arg.request)
           rejected == validate_t2a_request(arg.request)
       IN  IF built # NoResult THEN ConstructionFailed(built)
           ELSE \E svc \in IF rejected # NoResult THEN {NoService} ELSE CallerOutcomes :
                    Operation("t2a", arg, rejected, svc)

\* VoiceSetting(...), then T2ARequest(..., voice_setting=...), then
\* text_to_speech(request).
new_voice_setting ==
    /\ pc = "idle" /\ last.op = "init" /\ arg.type = "voice_setting"
    /\ LET built == ConstructVoiceSetting(arg)
           rejected == validate_t2a_request(arg.request)
       IN  IF built # NoResult THEN ConstructionFailed(built)
           ELSE \E svc \in IF rejected # NoResult THEN {NoService} ELSE CallerOutcomes :
                    Operation("t2a", arg, rejected, svc)

CallerInit ==
    /\ kind \in Clients
    /\ env = NoEnv
    /\ config = APIConfig("test_key", "test_group", NoneVal, NoneVal, env)
    /\ session = InitialSession(kind)
    /\ nextId = IF kind = "sync" THEN 2 ELSE 1
    /\ pc = "idle"
    /\ last = NoCall
    /\ arg \in CallerInputs
    /\ dispatches = 0
    /\ NoBatch

CallerNext ==
    \/ new_voice_clone
    \/ new_text_to_speech
    \/ new_voice_setting

SpecCaller == CallerInit /\ [][CallerNext]_vars

\* The three conditions on a voice_id.
VoiceIdWellFormed(v) ==
    /\ Len(v) >= 8
    /\ v[1] = "L"
    /\ \E i \in 1..Len(v) : v[i] = "L"
    /\ \E i \in 1..Len(v) : v[i] = "D"

VoiceIdRefused(r) ==
    /\ r.kind = "ValueError"
    /\ r.message[1] \in {"voice_id must be at least 8 characters long",
                         "voice_id must start with a letter",
                         "voice_id must contain both letters and numbers"}

\* C11: voice_clone accepts a voice_id exactly when it has at least 8
\* characters, starts with a letter and holds a letter and a digit; any other
\* voice_id is refused with a ValueError and no dispatch is made.
C11_VoiceIdAcceptance ==
    last.op = "voice_clone" =>
        /\ VoiceIdRefused(last.result) <=> ~VoiceIdWellFormed(arg.request.voice_id)
        /\ VoiceIdRefused(last.result) => (dispatches = 0 /\ ~last.dispatch.sent)
        /\ (VoiceIdWellFormed(arg.request.voice_id) /\ arg.request.text = NoneVal
                /\ arg.request.accuracy = 7 /\ arg.request.model = NullMsg)
            => (last.dispatch.sent /\ dispatches = 1)

\* A voice_id of exactly 8 characters, letter first, one digit, dispatched.
C11_Witness ==
    /\ last.op = "voice_clone"
    /\ Len(arg.request.voice_id) = 8
    /\ VoiceIdWellFormed(arg.request.voice_id)
    /\ Cardinality({i \in 1..8 : arg.request.voice_id[i] = "D"}) = 1
    /\ last.dispatch.sent

\* The fields other than model pass voice_clone's validation.
OtherFieldsPass(req) ==
    validate_voice_clone_request([req EXCEPT !.model = NullMsg]) = NoResult

\* C16: a voice-clone request whose model is one of speech-02-hd,
\* speech-02-turbo, speech-01-hd, speech-01-turbo can be constructed and
\* passes voice_clone's validation; one with any other non-empty model is
\* refused by voice_clone with a message containing "Invalid model".
C16_CloneModelWhitelist ==
    (arg.type = "clone" /\ last.op \in {"construct", "voice_clone"}
        /\ OtherFieldsPass(arg.request)) =>
        /\ arg.request.model \in CloneValidModels =>
                (last.op = "voice_clone" /\ last.dispatch.sent)
        /\ arg.request.model \notin (CloneValidModels \cup {NullMsg, ""}) =>
                /\ last.op = "voice_clone"
                /\ last.result.kind = "ValueError"
                /\ Contains(last.result.message, "Invalid model: ")

\* The models a T2ARequest of the given text can be constructed with, and
\* those the pre-flight validation of text_to_speech lets through.
FieldModels(text) ==
    {m \in ModelNames : ConstructT2ARequest(T2ARequest(text, m)) = NoResult}
PreflightModels(text) ==
    {m \in ModelNames : validate_t2a_request(T2ARequest(text, m)) = NoResult}

\* C17: the models accepted by the pre-flight validation of synthesis are a
\* strict subset of those the T2ARequest model field accepts: some model
\* constructs a valid T2ARequest and is then refused by text_to_speech.
C17_PreflightStrictSubset ==
    (arg.type = "t2a" /\ PreflightModels(arg.request.text) # {}) =>
        /\ PreflightModels(arg.request.text) \subseteq FieldModels(arg.request.text)
        /\ \E m \in FieldModels(arg.request.text) : m \notin PreflightModels(arg.request.text)

(***************************************************************************)
(* Construction: the credentials come from the constructor's arguments and *)
(* from the environment, which may change once the client exists.          *)
(***************************************************************************)
ApiKeyParams == {NullMsg, "", "test_key"}
GroupIdParams == {NullMsg, "", "test_group"}

Environments ==
    [MINIMAX_API_KEY : {NullMsg, "", "env_key"}, MINIMAX_GROUP_ID : {NullMsg, "", "env_group"}]

CtorArg(api_key, group_id) == [type |-> "ctor", api_key |-> api_key, group_id |-> group_id]

\* APIConfig.__init__: the ValueError it raises, or NoResult.
ConfigError(cfg) ==
    IF Unresolved(cfg.api_key)
    THEN ValueError(<<"API key is required. Set MINIMAX_API_KEY environment variable or pass api_key parameter.">>)
    ELSE IF Unresolved(cfg.group_id)
    THEN ValueError(<<"GroupId is required. Set MINIMAX_GROUP_ID environment variable or pass api_key parameter.">>)
    ELSE NoResult

\* MiniMaxSpeech(api_key, group_id) / AsyncMiniMaxSpeech(api_key, group_id):
\* APIConfig(...) raises, or the client comes to be.
construct ==
    /\ pc = "new"
    /\ LET cfg == APIConfig(arg.api_key, arg.group_id, NoneVal, NoneVal, env)
           err == ConfigError(cfg)
       IN  IF err # NoResult
           THEN /\ pc' = "failed"
                /\ last' = Call("__init__", NoSession, FALSE, NoService, err, NoDispatch)
                /\ UNCHANGED <<config, session, nextId>>
           ELSE /\ pc' = "idle"
                /\ config' = cfg
                /\ session' = InitialSession(kind)
                /\ nextId' = IF kind = "sync" THEN 2 ELSE 1
                /\ last' = Call("__init__", NoSession, FALSE, NoService, Ok, NoDispatch)
    /\ UNCHANGED <<kind, arg, dispatches, env>>
    /\ UNCHANGED batchVars

\* The environment changes under a client that exists: one variable is set,
\* emptied or removed.
putenv ==
    /\ pc = "idle"
    /\ env' \in Environments
    /\ \/ env'.MINIMAX_API_KEY = env.MINIMAX_API_KEY /\ env'.MINIMAX_GROUP_ID # env.MINIMAX_GROUP_ID
       \/ env'.MINIMAX_API_KEY # env.MINIMAX_API_KEY /\ env'.MINIMAX_GROUP_ID = env.MINIMAX_GROUP_ID
    /\ UNCHANGED <<kind, config, session, nextId, pc, last, arg, dispatches>>
    /\ UNCHANGED batchVars

ConfigInit ==
    /\ kind \in Clients
    /\ env \in Environments
    /\ config = NoConfig
    /\ session = NoSession
    /\ nextId = 1
    /\ pc = "new"
    /\ last = NoCall
    /\ arg \in {CtorArg(k, g) : k \in ApiKeyParams, g \in GroupIdParams}
    /\ dispatches = 0
    /\ NoBatch

ConfigNext ==
    \/ construct
    \/ putenv
    \/ text_to_speech
    \/ file_upload
    \/ get_voice
    \/ close

SpecConfig == ConfigInit /\ [][ConfigNext]_vars

\* A credential as the specification resolves it: the explicit parameter
\* when it is given and not empty, the environment variable otherwise.
Given(v) == v # NullMsg /\ v # ""

\* A failed construction is a ValueError of the constructor; a client that
\* exists holds both credentials, and an operation neither fails on the
\* credentials nor dispatches with other ones than the constructor resolved.
ConfigResolvedAtConstruction ==
    /\ pc = "failed" <=>
            (last.op = "__init__" /\ last.result.kind = "ValueError")
    /\ pc \in {"idle", "blocked"} => (Given(config.api_key) /\ Given(config.group_id))
    /\ IsOperation(last.op) =>
            /\ last.result.kind # "ValueError" \/ last.result = BusinessRejection(arg)
            /\ (last.dispatch.sent /\ last.op # "get_voice") =>
                    last.dispatch.group_id = config.group_id

\* C14: construction fails with a configuration error exactly when, taking
\* the parameter and then the environment variable, api_key or group_id is
\* empty or absent; once the client exists no operation fails on, or reads
\* again, the credentials, whatever the environment has become, and the
\* configuration never changes.
C14_ConfigCheckedOnce ==
    /\ []ConfigResolvedAtConstruction
    /\ [][(pc = "new" /\ pc' # "new") =>
            (pc' = "failed" <=>
                \/ ~Given(arg.api_key) /\ ~Given(env.MINIMAX_API_KEY)
                \/ ~Given(arg.group_id) /\ ~Given(env.MINIMAX_GROUP_ID))]_vars
    /\ [][(pc \in {"idle", "blocked"}) => (config' = config)]_vars

\* A client built from the environment alone dispatches with its group id
\* after the environment has lost both variables.
C14_Witness ==
    /\ last.op = "t2a" /\ last.dispatch.sent
    /\ config.group_id = "env_group" /\ config.api_key = "env_key"
    /\ env = NoEnv
    /\ last.dispatch.group_id = "env_group"

(***************************************************************************)
(* Listing voices: what the service's body holds for each of the five      *)
(* categories is drawn in the initial state; get_voice and the five        *)
(* accessors are applied to it.                                            *)
(***************************************************************************)
Categories ==
    {"voice_slots", "system_voice", "voice_cloning", "voice_generation", "music_generation"}

VoiceTypes == {"system", "voice_cloning", "voice_generation", "music_generation", "all"}

\* A category in the JSON body: the key is missing, or its value is null, []
\* or a list of records.
WireValues == {"absent", "null", "empty", "items"}

\* The attribute of VoiceListResponse pydantic makes of a key that is there.
DecodeCategory(w) ==
    CASE w = "null" -> "None"
      [] w = "empty" -> "[]"
      [] w = "items" -> "items"

\* The body of a voice listing.  The five categories are declared
\* Optional[list[...]] = Field(description=...), without a default: the value
\* may be null, the key must be there.
VoiceBody(voices, e) ==
    [fmt |-> "json", complete |-> \A c \in Categories : voices[c] # "absent",
     base_resp |-> e, voices |-> voices]

VoiceService(voices) ==
    [kind |-> "http", status |-> HTTP_OK, body |-> VoiceBody(voices, Envelope(0, "success"))]

VoicesArg(voice_type, voices, accessor) ==
    [type |-> "voices", voice_type |-> voice_type, voices |-> voices, accessor |-> accessor]

\* The voice_type each accessor asks for, and the attribute it returns.
AccessorVoiceType(c) == IF c = "voice_slots" THEN "all" ELSE c

\* A returned value that is no response object.
ReturnedValue(v) == Result("ok", NoneVal, NoData, <<v>>)

\* get_voice(voice_type), the service holding arg.voices.
list_voices ==
    /\ pc = "idle" /\ last.op = "init" /\ arg.type = "voices"
    /\ \E t \in VoiceTypes :
        Operation("get_voice", [arg EXCEPT !.voice_type = t], NoResult, VoiceService(arg.voices))

\* get_voice_slots, get_system_voices, get_cloned_voices,
\* get_generated_voices, get_music_voices: response = self.get_voice(...),
\* then return response.<category>.
get_voices_of ==
    /\ pc = "idle" /\ last.op = "init" /\ arg.type = "voices"
    /\ \E c \in Categories :
        LET s1 == Ensured(kind, session, config, nextId)
            d == Dispatch(kind, "get_voice", s1, config)
            svc == VoiceService(arg.voices)
            response == Submit(kind, "get_voice", svc, d.timeout)
            r == IF response.kind = "ok"
                 THEN ReturnedValue(DecodeCategory(response.response_data.body.voices[c]))
                 ELSE response
        IN  /\ session' = s1
            /\ nextId' = IF s1 # session THEN nextId + 1 ELSE nextId
            /\ last' = Call("get_voice", session, FALSE, svc, r, d)
            /\ dispatches' = Attempts(config.max_retries, response)
            /\ arg' = [arg EXCEPT !.voice_type = AccessorVoiceType(c), !.accessor = c]
    /\ UNCHANGED <<kind, config, pc, env>>
    /\ UNCHANGED batchVars

VoicesInit ==
    /\ kind \in Clients
    /\ env = NoEnv
    /\ config = APIConfig("test_key", "test_group", NoneVal, NoneVal, env)
    /\ session = InitialSession(kind)
    /\ nextId = IF kind = "sync" THEN 2 ELSE 1
    /\ pc = "idle"
    /\ last = NoCall
    /\ arg \in {VoicesArg("all", v, "none") : v \in [Categories -> WireValues]}
    /\ dispatches = 0
    /\ NoBatch

VoicesNext ==
    \/ list_voices
    \/ get_voices_of

SpecVoices == VoicesInit /\ [][VoicesNext]_vars

\* What the caller is to see of a category: None when the response does not
\* carry it, the list it carries otherwise.
Preserved(w) == IF w \in {"absent", "null"} THEN "None" ELSE DecodeCategory(w)

\* C19: for each of the five categories get_voice returns None for a category
\* the response does not carry and an empty list for one it carries empty,
\* the matching accessor returns the same value, and an absent category
\* never makes the call fail.
C19_AbsentIsNone ==
    (last.op = "get_voice" /\ arg.type = "voices") =>
        /\ last.result.kind = "ok"
        /\ arg.accessor = "none" =>
                \A c \in Categories :
                    DecodeCategory(last.result.response_data.body.voices[c])
                        = Preserved(arg.voices[c])
        /\ arg.accessor # "none" =>
                last.result.message = <<Preserved(arg.voices[arg.accessor])>>

(***************************************************************************)
(* Deleting a voice that is gone (C21).                                    *)
(***************************************************************************)
\* The service refuses a request: its answer carries an envelope whose
\* status_msg is not "success", as for a voice_id that does not exist.
Refuses(svc) ==
    /\ svc.kind = "http"
    /\ svc.body.fmt = "json"
    /\ svc.body.base_resp.present
    /\ ~is_success(svc.body.base_resp)

\* C21: two voice_delete calls in a row that the service refuses in the same
\* way both raise MiniMaxAPIError, with the same status code, and end in no
\* other kind of failure.
C21_DeleteTwiceApiError ==
    [][(/\ last.op = "voice_delete" /\ last'.op = "voice_delete"
        /\ Refuses(last.svc) /\ last'.svc = last.svc) =>
            /\ last.result.kind = "MiniMaxAPIError"
            /\ last'.result.kind = "MiniMaxAPIError"
            /\ last'.result.status_code = last.result.status_code
            /\ last'.result.status_code = last.svc.body.base_resp.status_code]_vars

(***************************************************************************)
(* Failures after dispatch (C25).                                          *)
(***************************************************************************)
\* The error kinds the package classifies a failed dispatch into.
ClassifiedErrors == {"MiniMaxAPIError", "MiniMaxTimeoutError"}

\* C25: an operation that fails after dispatch raises one of the classified
\* errors, and an HTTP 200 response whose body is no JSON, or is JSON that
\* does not decode into the typed response, raises MiniMaxAPIError.
C25_FailuresClassified ==
    /\ (Dispatched /\ last.result.kind \notin {"ok", "hang"}) =>
            last.result.kind \in ClassifiedErrors
    /\ (Got200 /\ ~Decodes(last.svc.body)) => last.result.kind = "MiniMaxAPIError"

(***************************************************************************)
(* The session across a call refused locally (C30).                        *)
(***************************************************************************)
\* The last call was refused before any dispatch: by business validation in
\* text_to_speech or voice_clone, or for a missing file in file_upload.
LocallyRejected ==
    /\ last.op \in {"t2a", "voice_clone", "file_upload"}
    /\ ~last.dispatch.sent
    /\ last.result.kind \in {"ValueError", "FileNotFoundError"}

\* C30: a call refused locally leaves the session as it found it; a client
\* without an open session before the call has none after it.
C30_RejectionKeepsSession ==
    LocallyRejected =>
        /\ session = last.before
        /\ ~WasOpen(last.before) => ~WasOpen(session)

(***************************************************************************)
(* close() and the calls after it in the non-blocking client (C29).        *)
(***************************************************************************)
\* C29: close() is not terminal for AsyncMiniMaxSpeech: an operation that
\* finds no session, or a closed one, opens a fresh session and gives what a
\* new client gives for the same call, and no operation dispatches on a
\* closed session.
C29_CloseNotTerminal ==
    (kind = "async" /\ IsOperation(last.op)) =>
        /\ WasOpen(session)
        /\ ~WasOpen(last.before) =>
                /\ session = NewSession(nextId - 1, config.timeout)
                /\ session.id > last.before.id
        /\ last.dispatch.sent =>
                /\ last.dispatch.sid = session.id
                /\ last.dispatch.timeout = config.timeout
                /\ last.result = ResultIn("async", last.op, NoResult, last.svc)

\* An operation right after close() was answered on a new session.
C29_Witness ==
    /\ kind = "async"
    /\ IsOperation(last.op)
    /\ last.afterClose
    /\ HasSession(last.before) /\ last.before.closed
    /\ last.dispatch.sent
    /\ last.result.kind = "ok"

(***************************************************************************)
(* What text_to_speech refuses (C26).                                      *)
(***************************************************************************)
\* The requests C26 says are refused: the text is empty once trimmed, or
\* longer than 5000 characters, or the model is none of the three listed.
RefusedByRule(req) ==
    \/ req.text.stripped = 0
    \/ req.text.len > 5000
    \/ req.model \notin {"speech-02-hd", "speech-01-turbo", "speech-01-hd"}

\* C26: text_to_speech raises ValueError before any dispatch exactly for the
\* requests the rule names, and dispatches every other request.
C26_T2ARejectionRule ==
    (last.op = "t2a" /\ arg.type = "t2a") =>
        /\ RefusedByRule(arg.request) <=>
                (last.result.kind = "ValueError" /\ ~last.dispatch.sent /\ dispatches = 0)
        /\ ~RefusedByRule(arg.request) <=> (last.dispatch.sent /\ dispatches = 1)

\* A text of exactly 5000 characters was dispatched.
C26_Witness ==
    /\ last.op = "t2a" /\ arg.type = "t2a"
    /\ arg.request.text.len = 5000
    /\ last.dispatch.sent

(***************************************************************************)
(* The session the items of a batch share (C28).                           *)
(***************************************************************************)
Started == {i \in Items : task[i] # "pending"}

\* The items that have started hold the first session, open, and no other
\* session was created.
OneSessionOpened ==
    /\ nextId <= 2
    /\ Started = {} => (session = NoSession /\ nextId = 1)
    /\ Started # {} => (session = NewSession(1, config.timeout) /\ nextId = 2)

\* C28: on a client without a session the items of one batch open exactly
\* one session between them, and while an item is in flight no step puts
\* another session in its place, in every interleaving.
C28_BatchOpensOneSession ==
    /\ []OneSessionOpened
    /\ [][(InFlight > 0) => (session' = session /\ nextId' = nextId)]_vars

\* Two items are in flight at once on the one session.
C28_Witness ==
    /\ InFlight = 2
    /\ \E i \in Items : task[i] = "done"
    /\ session.id = 1
    /\ nextId = 2

(***************************************************************************)
(* Termination of batch_text_to_speech (C27).  The event loop runs every   *)
(* task that is ready, and every dispatch ends, with a response or by the  *)
(* session's timeout: each step that stays possible is taken.              *)
(***************************************************************************)
SpecBatchLive ==
    /\ BatchInit
    /\ [][BatchNext]_vars
    /\ WF_vars(\E i \in Items : StartItem(i))
    /\ WF_vars(\E i \in Items : CompleteItem(i))
    /\ WF_vars(BatchReturn)

\* C27: batch_text_to_speech returns in the end exactly when max_concurrent
\* is at least 1 or the list is empty, and it returns only once every item
\* has had a permit and given it back; with max_concurrent = 0 and a request
\* to run no item ever starts and the call never returns.
C27_BatchTerminates ==
    /\ (max_concurrent >= 1 \/ Len(requests) = 0) => <>(batch = "returned")
    /\ (max_concurrent = 0 /\ Len(requests) >= 1) =>
            [](batch = "running" /\ \A i \in Items : task[i] = "pending")
    /\ [](batch = "returned" => (sem = max_concurrent /\ \A i \in Items : task[i] = "done"))

\* The batch returned after its items ran one at a time, each waiting item
\* taking the permit the one before it gave back.
C27_Witness ==
    /\ batch = "returned"
    /\ max_concurrent = 1
    /\ Len(requests) = MaxRequests
    /\ \E i \in Items : returned[i].kind = "MiniMaxTimeoutError"
    /\ \E i \in Items : returned[i].kind = "ok"

(***************************************************************************)
(* The order of voice_clone's checks (C24).                                *)
(***************************************************************************)
\* The rules in the order C24 gives them, each with the message that holds
\* the words C24 quotes for it.
RuleOrder == <<"length", "first", "mixed", "text", "accuracy", "model">>

RuleMessage(rule) ==
    CASE rule = "length" -> "voice_id must be at least 8 characters long"
      [] rule = "first" -> "voice_id must start with a letter"
      [] rule = "mixed" -> "voice_id must contain both letters and numbers"
      [] rule = "text" -> "text too long, maximum 2000 characters allowed"
      [] rule = "accuracy" -> "accuracy must be between 0 and 1"
      [] rule = "model" -> "Invalid model: "

\* The request breaks the rule, taken on its own.
Breaks(req, rule) ==
    CASE rule = "length" -> Len(req.voice_id) < 8
      [] rule = "first" -> Len(req.voice_id) = 0 \/ req.voice_id[1] # "L"
      [] rule = "mixed" ->
            ~((\E i \in 1..Len(req.voice_id) : req.voice_id[i] = "L")
              /\ (\E i \in 1..Len(req.voice_id) : req.voice_id[i] = "D"))
      [] rule = "text" -> req.text # NoneVal /\ req.text > 2000
      [] rule = "accuracy" -> req.accuracy # NoneVal /\ (req.accuracy < 0 \/ req.accuracy > 10)
      [] rule = "model" ->
            req.model \notin {NullMsg, "", "speech-02-hd", "speech-02-turbo",
                              "speech-01-hd", "speech-01-turbo"}

Broken(req) == {n \in DOMAIN RuleOrder : Breaks(req, RuleOrder[n])}

FirstBroken(req) == CHOOSE n \in Broken(req) : \A k \in Broken(req) : n <= k

\* C24: voice_clone raises for the first rule its request breaks, in the
\* order length, first character, letters and digits, text length, accuracy,
\* model, with that rule's message and no other; a request that breaks none
\* is not refused.
C24_FirstViolationOnly ==
    (last.op = "voice_clone" /\ arg.type = "clone") =>
        IF Broken(arg.request) = {}
        THEN last.result.kind # "ValueError" /\ last.dispatch.sent
        ELSE /\ last.result.kind = "ValueError"
             /\ last.result.message[1] = RuleMessage(RuleOrder[FirstBroken(arg.request)])
             /\ \A n \in DOMAIN RuleOrder :
                    n # FirstBroken(arg.request) =>
                        ~Contains(last.result.message, RuleMessage(RuleOrder[n]))
             /\ ~last.dispatch.sent

\* A request with a text too long, an accuracy out of range and an unknown
\* model was refused for its text.
C24_Witness ==
    /\ last.op = "voice_clone" /\ arg.type = "clone"
    /\ Broken(arg.request) = {4, 5, 6}
    /\ last.result.message = <<"text too long, maximum 2000 characters allowed">>

(***************************************************************************)
(* The ranges of VoiceSetting (C23).                                       *)
(***************************************************************************)
\* The ranges as C23 gives them: speed in [0.5, 2.0], volume in (0, 10],
\* pitch in [-12, 12], speed and volume in tenths.
InRanges(a) ==
    /\ a.speed >= 5 /\ a.speed <= 20
    /\ a.vol > 0 /\ a.vol <= 100
    /\ a.pitch >= -12 /\ a.pitch <= 12

\* C23: a VoiceSetting is constructed exactly when its speed, volume and
\* pitch lie in their ranges; for any other value the constructor raises
\* ValidationError and no call is dispatched.
C23_VoiceSettingRanges ==
    (arg.type = "voice_setting" /\ last.op # "init") =>
        /\ InRanges(arg) <=> (last.op = "t2a" /\ last.dispatch.sent)
        /\ ~InRanges(arg) <=>
                /\ last.op = "construct"
                /\ last.result = ValidationError
                /\ dispatches = 0
                /\ ~last.dispatch.sent
                /\ session = InitialSession(kind)

\* A setting at the ends of its ranges was constructed and its request sent.
C23_Witness ==
    /\ arg.type = "voice_setting"
    /\ arg.speed = 5 /\ arg.vol = 100 /\ arg.pitch = -12
    /\ last.op = "t2a"
    /\ last.dispatch.sent

(***************************************************************************)
(* The command line: each handler builds a MiniMaxSpeech, makes one call   *)
(* on it, prints what came back, and closes the client in its finally      *)
(* clause.  pc ends as the exit code of the process.                       *)
(***************************************************************************)
\* sys.exit(1), which except Exception does not catch.
SystemExit == Result("SystemExit", NoneVal, NoData, <<"1">>)

\* enumerate(None) and len(None).
TypeError == Result("TypeError", NoneVal, NoData, <<"object of type 'NoneType' has no len()">>)

\* The parsed arguments of one command; raised is what the handler's own
\* statements raised, once it has run.
CliArg(command, fields) ==
    [type |-> "cli", command |-> command, fields |-> fields, raised |-> NoResult]

\* The arguments given: a listing of each type over every body the service
\* may hold; syntheses with volumes 0, 1.0 and 10.1 and a text that is
\* blank or not; uploads of a file that is there or not; clones with each
\* request of VoiceCloneRequests.
CliInputs ==
    {CliArg("voices", [voice_type |-> t, voices |-> v]) :
        t \in VoiceTypes, v \in [Categories -> WireValues]}
    \cup {CliArg("t2a", VoiceSettingArg(10, v, 0) @@ [text |-> t]) :
            v \in {0, 10, 101}, t \in {Text(5, 5), Text(3, 0)}}
    \cup {CliArg("upload", PathArg(e)) : e \in BOOLEAN}
    \cup {CliArg("clone", RequestArg("clone", r)) : r \in VoiceCloneRequests}

\* What the service answers to the command's one request.
CliOutcomes(a) ==
    IF a.command = "voices"
    THEN { VoiceService(a.fields.voices),
           [kind |-> "http", status |-> HTTP_OK,
            body |-> VoiceBody(a.fields.voices, Envelope(1004, "fail"))],
           NetError }
    ELSE { [kind |-> "http", status |-> HTTP_OK, body |-> JsonBody(TRUE, Envelope(0, "success"))],
           [kind |-> "http", status |-> HTTP_OK, body |-> JsonBody(TRUE, Envelope(1004, "fail"))],
           NetError, NoResponse }

\* validate_t2a_args: speed, volume and pitch are compared with their
\* ranges, the volume with 0.0 <= volume <= 10.0.
validate_t2a_args(f) ==
    IF ~(5 <= f.speed /\ f.speed <= 20) THEN SystemExit
    ELSE IF ~(0 <= f.vol /\ f.vol <= 100) THEN SystemExit
    ELSE IF ~(-12 <= f.pitch /\ f.pitch <= 12) THEN SystemExit
    ELSE NoResult

\* What handle_voices_command raises while it prints a listing: it walks
\* system_voice for the types all and system, and takes len() of each of
\* the five categories for its statistics.
PrintVoices(voice_type, voices) ==
    IF voice_type \in {"all", "system"} /\ DecodeCategory(voices["system_voice"]) = "None"
    THEN TypeError
    ELSE IF \E c \in Categories : DecodeCategory(voices[c]) = "None"
    THEN TypeError
    ELSE NoResult

\* The body of a handler: `before` is what was raised ahead of the client's
\* method (NoResult if nothing), `rejected` what the method's local check
\* raises, `printing` what the handler raises after the method has returned.
Handle(op, before, rejected, svc, printing) ==
    LET s1 == NewSession(nextId, NoTimeout)
        d == Dispatch("sync", op, s1, config)
        made == before = NoResult /\ rejected = NoResult
        r == IF before # NoResult THEN before
             ELSE IF rejected # NoResult THEN rejected
             ELSE Submit("sync", op, svc, d.timeout)
        after == IF r.kind = "ok" THEN printing ELSE NoResult
    IN  /\ nextId <= MaxSessions
        /\ last' = IF made THEN Call(op, NoSession, FALSE, svc, r, d)
                   ELSE Call(op, NoSession, FALSE, NoService, r, NoDispatch)
        /\ dispatches' = IF made THEN Attempts(config.max_retries, r) ELSE 0
        /\ arg' = [arg EXCEPT !.raised = IF r.kind = "ok" THEN after ELSE r]
        \* finally: if 'client' in locals(): client.close()
        /\ session' = IF before = SystemExit THEN session
                      ELSE IF r = Hang THEN s1 ELSE SessionClose(s1)
        /\ nextId' = IF before = SystemExit THEN nextId ELSE nextId + 1
        /\ pc' = IF r = Hang THEN "blocked"
                 ELSE IF r.kind = "ok" /\ after = NoResult THEN "exit0" ELSE "exit1"
        /\ UNCHANGED <<kind, config, env>>
        /\ UNCHANGED batchVars

handle_t2a_command ==
    /\ pc = "idle" /\ arg.type = "cli" /\ arg.command = "t2a"
    /\ LET f == arg.fields
           req == T2ARequest(f.text, f.request.model)
           before == IF validate_t2a_args(f) # NoResult THEN validate_t2a_args(f)
                     ELSE IF ConstructVoiceSetting(f) # NoResult THEN ConstructVoiceSetting(f)
                     ELSE ConstructT2ARequest(req)
       IN  \E svc \in CliOutcomes(arg) :
                Handle("t2a", before, validate_t2a_request(req), svc, NoResult)

handle_voices_command ==
    /\ pc = "idle" /\ arg.type = "cli" /\ arg.command = "voices"
    /\ \E svc \in CliOutcomes(arg) :
            Handle("get_voice", NoResult, NoResult, svc,
                   PrintVoices(arg.fields.voice_type, arg.fields.voices))

handle_upload_command ==
    /\ pc = "idle" /\ arg.type = "cli" /\ arg.command = "upload"
    /\ \E svc \in CliOutcomes(arg) :
            Handle("file_upload", IF arg.fields.exists THEN NoResult ELSE SystemExit,
                   PathRejected(arg.fields.exists), svc, NoResult)

handle_clone_command ==
    /\ pc = "idle" /\ arg.type = "cli" /\ arg.command = "clone"
    /\ \E svc \in CliOutcomes(arg) :
            Handle("voice_clone", ConstructVoiceCloneRequest(arg.fields.request),
                   validate_voice_clone_request(arg.fields.request), svc, NoResult)

\* The process starts with its arguments parsed and no client yet.
CliInit ==
    /\ kind = "sync"
    /\ env = NoEnv
    /\ config = APIConfig("test_key", "test_group", NoneVal, NoneVal, env)
    /\ session = NoSession
    /\ nextId = 1
    /\ pc = "idle"
    /\ last = NoCall
    /\ arg \in CliInputs
    /\ dispatches = 0
    /\ NoBatch

CliNext ==
    \/ handle_t2a_command
    \/ handle_voices_command
    \/ handle_upload_command
    \/ handle_clone_command

SpecCli == CliInit /\ [][CliNext]_vars

\* C22: each command exits with code 0 whenever the client operation
\* succeeds and with code 1 whenever an error is raised; a successful
\* service call never ends in exit code 1.
C22_CliExitCodes ==
    (arg.type = "cli" /\ pc \in {"exit0", "exit1"}) =>
        /\ pc = "exit0" <=> last.result.kind = "ok"
        /\ (last.dispatch.sent /\ last.result.kind = "ok") => pc # "exit1"

====
